---- MODULE Spec2Model ----
(***************************************************************************)
(* Model of the instrumented inference request pipeline of                 *)
(* src/app/inference_server.py: the lifespan (engine construction and      *)
(* load), the predict handler (input normalisation) and                    *)
(* BertInferenceEngine.infer (execution wrapped in metric updates).        *)
(*                                                                         *)
(* Tensors are kept by shape and by the attention-mask entries; the        *)
(* numerical content of the model outputs is opaque and is represented by  *)
(* its shape alone.  Wall-clock values (latency, load time) are not        *)
(* represented: a histogram is its observation count, the load gauge is    *)
(* whether it has been set.                                                *)
(*                                                                         *)
(* Every prometheus_client sample update (inc, dec, observe, set) is       *)
(* atomic; an infer call is split at these updates so that calls made from *)
(* several threads interleave between them.                                *)
(***************************************************************************)
EXTENDS Integers, Sequences, FiniteSets, TLC

\* ------------------------------------------------------------------ bounds
NumReq == 2                 \* request slots (calls that may overlap)
MaxBatch == 2               \* rows of a batch / texts of a request

\* ------------------------------------------------------- program constants
MAX_SEQUENCE_LENGTH == 3    \* int(os.getenv("MAX_SEQUENCE_LENGTH", ...)), scaled
HiddenDim == 768            \* hidden size of the synthetic tensors

Slots == 1..NumReq
SeqSlots == {1}

\* An Optional[T] value is a sequence of length 0 (None) or 1 (a value).
None == <<>>
Some(v) == <<v>>
IsNone(o) == Len(o) = 0

Keys == {"input_ids", "attention_mask", "token_type_ids"}

RECURSIVE SumSeq(_)
SumSeq(s) == IF Len(s) = 0 THEN 0 ELSE Head(s) + SumSeq(Tail(s))

RECURSIVE SumRows(_)
SumRows(rows) == IF Len(rows) = 0 THEN 0 ELSE SumSeq(Head(rows)) + SumRows(Tail(rows))

\* ---------------------------------------------------------- request values
\* A JSON tensor value: a list of equal-length integer lists (nd = 2) or a
\* bare number (nd = 0).
Tensor2(rows) == [nd |-> 2, rows |-> rows]
Tensor0 == [nd |-> 0, rows |-> <<>>]

Const(n, v) == [i \in 1..n |-> v]

\* Attention-mask rows of length s: no padding, one padded position, and a
\* row of negative entries (nothing in predict restricts the entries to 0/1).
MaskRows(s) == {Const(s, 1), [i \in 1..s |-> IF i < s THEN 1 ELSE 0], Const(s, -1)}

InputSeqLens == {1, MAX_SEQUENCE_LENGTH}

PreTokenized(b, s, m) ==
    [k \in Keys |->
        CASE k = "input_ids" -> Tensor2(Const(b, Const(s, 7)))
          [] k = "attention_mask" -> Tensor2([i \in 1..b |-> IF i = 1 THEN m ELSE Const(s, 1)])
          [] OTHER -> Tensor2(Const(b, Const(s, 0)))]

WellFormedDicts ==
    {PreTokenized(b, s, m) : b \in 1..MaxBatch, s \in InputSeqLens, m \in MaskRows(1)}
    \cup {PreTokenized(b, MAX_SEQUENCE_LENGTH, m) : b \in 1..MaxBatch, m \in MaskRows(MAX_SEQUENCE_LENGTH)}

EmptyDict == [k \in {} |-> Tensor0]
MissingKeyDict == [k \in {"input_ids"} |-> Tensor2(<<<<7>>>>)]
ScalarDict == [k \in Keys |-> Tensor0]

\* A text is its sequence of words; "" is the text with no words.
Texts == {<<>>, <<7>>, <<7, 7>>}
\* The texts of a batch: the empty text and one that is truncated.
BatchTexts == {<<>>, <<7, 7>>}

RECURSIVE SeqsUpTo(_, _)
SeqsUpTo(S, n) ==
    IF n = 0 THEN {<<>>}
    ELSE LET shorter == SeqsUpTo(S, n - 1)
         IN shorter \cup {Append(q, x) : q \in {p \in shorter : Len(p) = n - 1}, x \in S}

InputsField == {None} \cup {Some(d) : d \in WellFormedDicts \cup {EmptyDict, MissingKeyDict, ScalarDict}}
TextsField == {None} \cup {Some(l) : l \in SeqsUpTo(BatchTexts, MaxBatch)}
TextField == {None} \cup {Some(t) : t \in Texts}

\* InferenceRequest (include_embeddings only selects whether the embeddings
\* are copied into the response and is not represented).
Requests == [inputs : InputsField, texts : TextsField, text : TextField]

\* Requests of the concurrent specification: pre-tokenized one-column batches
\* of one row and of MaxBatch rows.
ConcRequests ==
    {[inputs |-> Some(d), texts |-> None, text |-> None] :
        d \in {PreTokenized(b, 1, m) : b \in {1, MaxBatch}, m \in {<<1>>, <<-1>>}} \cup {ScalarDict}}

NoRequest == [inputs |-> None, texts |-> None, text |-> None]

\* ------------------------------------------------------- Python semantics
\* Truth value of the Optional request fields as tested by `if request.x:`
\* (None, {} , [] and "" are all false).
InputsTruthy(req) == ~IsNone(req.inputs) /\ DOMAIN req.inputs[1] # {}
TextsTruthy(req) == ~IsNone(req.texts) /\ Len(req.texts[1]) > 0
TextTruthy(req) == ~IsNone(req.text) /\ Len(req.text[1]) > 0

\* np.array(value, dtype=np.int64): an ndarray with its shape.
NpArray(v) ==
    [shape |-> IF v.nd = 0 THEN <<>> ELSE <<Len(v.rows), Len(v.rows[1])>>,
     data |-> v.rows]

\* The tokenizer call of tokenize(): [CLS] words [SEP], truncated to
\* max_length, padded to max_length; the mask marks the unpadded positions.
TokenCount(text, max_length) ==
    IF Len(text) + 2 <= max_length THEN Len(text) + 2 ELSE max_length

EncodeIds(text, max_length) ==
    LET n == TokenCount(text, max_length)
    IN [i \in 1..max_length |->
            IF i = 1 THEN 101
            ELSE IF i < n THEN text[i - 1]
            ELSE IF i = n THEN 102
            ELSE 0]

EncodeMask(text, max_length) ==
    [i \in 1..max_length |-> IF i <= TokenCount(text, max_length) THEN 1 ELSE 0]

tokenize(texts, max_length) ==
    [k \in Keys |->
        [shape |-> <<Len(texts), max_length>>,
         data |-> CASE k = "input_ids" -> [i \in 1..Len(texts) |-> EncodeIds(texts[i], max_length)]
                    [] k = "attention_mask" -> [i \in 1..Len(texts) |-> EncodeMask(texts[i], max_length)]
                    [] OTHER -> [i \in 1..Len(texts) |-> Const(max_length, 0)]]]

\* Normalize with the final branch tokenizing an empty text instead of
\* rejecting the request.
NormalizeDefaultEmpty(req) ==
    IF InputsTruthy(req)
    THEN IF Keys \subseteq DOMAIN req.inputs[1]
         THEN [how |-> "inputs", tokenized |-> None,
               batch |-> Some([k \in Keys |-> NpArray(req.inputs[1][k])])]
         ELSE [how |-> "KeyError", tokenized |-> None, batch |-> None]
    ELSE IF TextsTruthy(req)
    THEN [how |-> "texts", tokenized |-> Some(req.texts[1]),
          batch |-> Some(tokenize(req.texts[1], MAX_SEQUENCE_LENGTH))]
    ELSE [how |-> "text", tokenized |-> Some(<<<<>>>>),
          batch |-> Some(tokenize(<<<<>>>>, MAX_SEQUENCE_LENGTH))]

\* Normalize with the texts branch tested before the inputs branch.
NormalizeTextsFirst(req) ==
    IF TextsTruthy(req)
    THEN [how |-> "texts", tokenized |-> Some(req.texts[1]),
          batch |-> Some(tokenize(req.texts[1], MAX_SEQUENCE_LENGTH))]
    ELSE IF InputsTruthy(req)
    THEN IF Keys \subseteq DOMAIN req.inputs[1]
         THEN [how |-> "inputs", tokenized |-> None,
               batch |-> Some([k \in Keys |-> NpArray(req.inputs[1][k])])]
         ELSE [how |-> "KeyError", tokenized |-> None, batch |-> None]
    ELSE IF TextTruthy(req)
    THEN [how |-> "text", tokenized |-> Some(<<req.text[1]>>),
          batch |-> Some(tokenize(<<req.text[1]>>, MAX_SEQUENCE_LENGTH))]
    ELSE [how |-> "400", tokenized |-> None, batch |-> None]

\* The input-format dispatch of predict.  `how` is the branch taken; a
\* missing key of the pre-tokenized dict raises KeyError in the handler.
Normalize(req) ==
    IF InputsTruthy(req)
    THEN IF Keys \subseteq DOMAIN req.inputs[1]
         THEN [how |-> "inputs", tokenized |-> None,
               batch |-> Some([k \in Keys |-> NpArray(req.inputs[1][k])])]
         ELSE [how |-> "KeyError", tokenized |-> None, batch |-> None]
    ELSE IF TextsTruthy(req)
    THEN [how |-> "texts", tokenized |-> Some(req.texts[1]),
          batch |-> Some(tokenize(req.texts[1], MAX_SEQUENCE_LENGTH))]
    ELSE IF TextTruthy(req)
    THEN [how |-> "text", tokenized |-> Some(<<req.text[1]>>),
          batch |-> Some(tokenize(<<req.text[1]>>, MAX_SEQUENCE_LENGTH))]
    ELSE [how |-> "400", tokenized |-> None, batch |-> None]

\* ------------------------------------------------------------------- state
VARIABLES
    phase,              \* lifespan: "init", "serving", "failed", "stopped"
    engine,             \* the global engine reference: None or Some("engine")
    tokenizer,          \* engine.tokenizer is set
    session,            \* engine.session: None or Some([outputs |-> n])
    MODEL_LOAD_TIME,    \* the load gauge has been set
    load_env,           \* what load() found: None before it has run
    probe,              \* the last answer of health, metrics or model_info
    REQUEST_COUNT,      \* [success, error] counters
    REQUEST_LATENCY,    \* number of latency observations
    TOKENS_PROCESSED,   \* counter value
    BATCH_SIZE,         \* [count, sum] of the batch-size histogram
    ACTIVE_REQUESTS,    \* gauge value
    pc,                 \* per slot: position of the request
    request,            \* per slot: the InferenceRequest
    norm,               \* per slot: predict's reading of the engine global and
                        \*           the outcome of its input dispatch
    local,              \* per slot: infer's locals
    response,           \* per slot: the HTTP response
    samples             \* per slot: the samples this call has recorded

lifecycle == <<phase, engine, tokenizer, session, MODEL_LOAD_TIME, load_env>>
metrics == <<REQUEST_COUNT, REQUEST_LATENCY, TOKENS_PROCESSED, BATCH_SIZE, ACTIVE_REQUESTS>>
calls == <<pc, request, norm, local, response, samples>>
vars == <<lifecycle, metrics, calls, probe>>

NoNorm == [engine_read |-> "", how |-> "", tokenized |-> None, batch |-> None]
NoLocal == [batch_size |-> 0, tokens |-> 0, branch |-> "", result |-> None, exc |-> "",
            raised_at |-> ""]
NoProbe == [endpoint |-> "", body |-> <<>>]
NoResponse == [status |-> 0, batch_size |-> 0, tokens_processed |-> 0,
               pooler_output |-> None, error |-> ""]
NoSamples == [inc |-> 0, dec |-> 0, success |-> 0, error |-> 0, latency |-> 0,
              token_incs |-> 0, tokens |-> 0, batch_obs |-> <<>>]

Init ==
    /\ phase = "init"
    /\ engine = None
    /\ tokenizer = FALSE
    /\ session = None
    /\ MODEL_LOAD_TIME = FALSE
    /\ load_env = None
    /\ probe = NoProbe
    /\ REQUEST_COUNT = [success |-> 0, error |-> 0]
    /\ REQUEST_LATENCY = 0
    /\ TOKENS_PROCESSED = 0
    /\ BATCH_SIZE = [count |-> 0, sum |-> 0]
    /\ ACTIVE_REQUESTS = 0
    /\ pc = [r \in Slots |-> "idle"]
    /\ request = [r \in Slots |-> NoRequest]
    /\ norm = [r \in Slots |-> NoNorm]
    /\ local = [r \in Slots |-> NoLocal]
    /\ response = [r \in Slots |-> NoResponse]
    /\ samples = [r \in Slots |-> NoSamples]

\* --------------------------------------------------------------- lifecycle
\* BertInferenceEngine.load: the tokenizer first, then the session if the
\* model file exists; the load gauge is set only when load reaches its end.
Environments == [tokenizer_ok : BOOLEAN, file_exists : BOOLEAN, session_ok : BOOLEAN, outputs : {1, 2}]

\* load raising when the model file is absent instead of degrading.
loadFailsOnMissingFile(env) ==
    IF ~env.tokenizer_ok
    THEN [raised |-> TRUE, tokenizer |-> FALSE, session |-> None, load_time |-> FALSE]
    ELSE IF env.file_exists /\ env.session_ok
    THEN [raised |-> FALSE, tokenizer |-> TRUE,
          session |-> Some([outputs |-> env.outputs]), load_time |-> TRUE]
    ELSE [raised |-> TRUE, tokenizer |-> TRUE, session |-> None, load_time |-> FALSE]

load(env) ==
    IF ~env.tokenizer_ok
    THEN [raised |-> TRUE, tokenizer |-> FALSE, session |-> None, load_time |-> FALSE]
    ELSE IF env.file_exists
    THEN IF env.session_ok
         THEN [raised |-> FALSE, tokenizer |-> TRUE,
               session |-> Some([outputs |-> env.outputs]), load_time |-> TRUE]
         ELSE [raised |-> TRUE, tokenizer |-> TRUE, session |-> None, load_time |-> FALSE]
    ELSE [raised |-> FALSE, tokenizer |-> TRUE, session |-> None, load_time |-> TRUE]

\* lifespan, up to the yield: the engine is constructed, bound to the global
\* and loaded; a load that raises aborts the start-up.
LifespanStartup ==
    /\ phase = "init"
    /\ \A r \in Slots : pc[r] \in {"idle", "done"}
    /\ \E env \in Environments :
        LET l == load(env)
        IN /\ engine' = Some("engine")
           /\ tokenizer' = l.tokenizer
           /\ session' = l.session
           /\ MODEL_LOAD_TIME' = l.load_time
           /\ load_env' = Some(env)
           /\ phase' = IF l.raised THEN "failed" ELSE "serving"
    /\ UNCHANGED <<metrics, calls, probe>>

\* lifespan, after the yield.
LifespanShutdown ==
    /\ phase = "serving"
    /\ \A r \in Slots : pc[r] \in {"idle", "done"}
    /\ engine' = None
    /\ phase' = "stopped"
    /\ UNCHANGED <<tokenizer, session, MODEL_LOAD_TIME, load_env, metrics, calls, probe>>

\* What `engine is None` finds when predict reads the global.
EngineRead == IF IsNone(engine) THEN "unset" ELSE "set"

\* predict answering 503 also when the engine holds no session.
PredictNeedsSession(r, req) ==
    /\ pc[r] = "idle"
    /\ phase \in {"init", "serving", "stopped"}
    /\ request' = [request EXCEPT ![r] = req]
    /\ IF IsNone(engine) \/ IsNone(session)
       THEN /\ response' = [response EXCEPT ![r] = [NoResponse EXCEPT !.status = 503]]
            /\ pc' = [pc EXCEPT ![r] = "done"]
            /\ norm' = [norm EXCEPT ![r].engine_read = EngineRead]
       ELSE LET n == Normalize(req)
            IN /\ norm' = [norm EXCEPT ![r] = [engine_read |-> EngineRead, how |-> n.how,
                                               tokenized |-> n.tokenized, batch |-> n.batch]]
               /\ CASE n.how = "400" ->
                         /\ response' = [response EXCEPT ![r] = [NoResponse EXCEPT !.status = 400]]
                         /\ pc' = [pc EXCEPT ![r] = "done"]
                    [] n.how = "KeyError" ->
                         /\ response' = [response EXCEPT ![r] =
                                            [NoResponse EXCEPT !.status = 500, !.error = "KeyError"]]
                         /\ pc' = [pc EXCEPT ![r] = "done"]
                    [] OTHER ->
                         /\ pc' = [pc EXCEPT ![r] = "infer"]
                         /\ UNCHANGED response
    /\ UNCHANGED <<lifecycle, probe, metrics, local, samples>>

\* ----------------------------------------------------------------- predict
\* predict, from its entry to the call of engine.infer: 503 without an
\* engine, the input dispatch, 400 when no branch is taken.  An exception of
\* the handler itself (KeyError) is answered 500 by the framework.
Predict(r, req) ==
    /\ pc[r] = "idle"
    /\ phase \in {"init", "serving", "stopped"}
    /\ request' = [request EXCEPT ![r] = req]
    /\ IF IsNone(engine)
       THEN /\ response' = [response EXCEPT ![r] = [NoResponse EXCEPT !.status = 503]]
            /\ pc' = [pc EXCEPT ![r] = "done"]
            /\ norm' = [norm EXCEPT ![r].engine_read = EngineRead]
       ELSE LET n == Normalize(req)
            IN /\ norm' = [norm EXCEPT ![r] = [engine_read |-> EngineRead, how |-> n.how,
                                               tokenized |-> n.tokenized, batch |-> n.batch]]
               /\ CASE n.how = "400" ->
                         /\ response' = [response EXCEPT ![r] = [NoResponse EXCEPT !.status = 400]]
                         /\ pc' = [pc EXCEPT ![r] = "done"]
                    [] n.how = "KeyError" ->
                         /\ response' = [response EXCEPT ![r] =
                                            [NoResponse EXCEPT !.status = 500, !.error = "KeyError"]]
                         /\ pc' = [pc EXCEPT ![r] = "done"]
                    [] OTHER ->
                         /\ pc' = [pc EXCEPT ![r] = "infer"]
                         /\ UNCHANGED response
    /\ UNCHANGED <<lifecycle, probe, metrics, local, samples>>

\* ------------------------------------------------------------------- infer
\* ACTIVE_REQUESTS.labels(model).inc(), before the try block.
InferEnter(r) ==
    /\ pc[r] = "infer"
    /\ ACTIVE_REQUESTS' = ACTIVE_REQUESTS + 1
    /\ samples' = [samples EXCEPT ![r].inc = @ + 1]
    /\ pc' = [pc EXCEPT ![r] = "try"]
    /\ UNCHANGED <<lifecycle, probe, REQUEST_COUNT, REQUEST_LATENCY, TOKENS_PROCESSED, BATCH_SIZE,
                   request, norm, local, response>>

\* The synthetic result of the mock branch.
MockResult(batch_size) ==
    [last_hidden_state |-> <<batch_size, MAX_SEQUENCE_LENGTH, HiddenDim>>,
     pooler_output |-> Some(<<batch_size, HiddenDim>>)]

\* The result built from the outputs of session.run: token embeddings of the
\* input's shape, and the pooled output when the session has a second output.
SessionResult(batch, sess) ==
    LET shape == batch["input_ids"].shape
    IN [last_hidden_state |-> <<shape[1], shape[2], HiddenDim>>,
        pooler_output |-> IF sess.outputs > 1 THEN Some(<<shape[1], HiddenDim>>) ELSE None]

\* Execute with the batch size and token count taken after the session run,
\* so that a run that raises leaves them uncomputed.
ExecuteComputesAfterRun(batch, sess, run_ok) ==
    IF batch["input_ids"].shape = <<>>
    THEN [NoLocal EXCEPT !.exc = "TypeError", !.raised_at = "len"]
    ELSE LET batch_size == batch["input_ids"].shape[1]
             tokens == SumRows(batch["attention_mask"].data)
             l == [NoLocal EXCEPT !.batch_size = batch_size, !.tokens = tokens]
         IN IF ~IsNone(sess)
            THEN IF run_ok
                 THEN [l EXCEPT !.branch = "session",
                                !.result = Some(SessionResult(batch, sess[1]))]
                 ELSE [NoLocal EXCEPT !.branch = "session", !.exc = "RuntimeError",
                                      !.raised_at = "run"]
            ELSE [l EXCEPT !.branch = "mock", !.result = Some(MockResult(batch_size))]

\* Execute with the token count taken as the size of the mask.
ExecuteCountsPositions(batch, sess, run_ok) ==
    IF batch["input_ids"].shape = <<>>
    THEN [NoLocal EXCEPT !.exc = "TypeError", !.raised_at = "len"]
    ELSE LET batch_size == batch["input_ids"].shape[1]
             tokens == batch["attention_mask"].shape[1] * batch["attention_mask"].shape[2]
             l == [NoLocal EXCEPT !.batch_size = batch_size, !.tokens = tokens]
         IN IF ~IsNone(sess)
            THEN IF run_ok
                 THEN [l EXCEPT !.branch = "session",
                                !.result = Some(SessionResult(batch, sess[1]))]
                 ELSE [l EXCEPT !.branch = "session", !.exc = "RuntimeError", !.raised_at = "run"]
            ELSE [l EXCEPT !.branch = "mock", !.result = Some(MockResult(batch_size))]

\* The try block up to the latency computation: batch size and token count,
\* then the session run (which may raise) or the mock branch.  len() of a
\* 0-d array raises TypeError.
Execute(batch, sess, run_ok) ==
    IF batch["input_ids"].shape = <<>>
    THEN [NoLocal EXCEPT !.exc = "TypeError", !.raised_at = "len"]
    ELSE LET batch_size == batch["input_ids"].shape[1]
             tokens == SumRows(batch["attention_mask"].data)
             l == [NoLocal EXCEPT !.batch_size = batch_size, !.tokens = tokens]
         IN IF ~IsNone(sess)
            THEN IF run_ok
                 THEN [l EXCEPT !.branch = "session",
                                !.result = Some(SessionResult(batch, sess[1]))]
                 ELSE [l EXCEPT !.branch = "session", !.exc = "RuntimeError", !.raised_at = "run"]
            ELSE [l EXCEPT !.branch = "mock", !.result = Some(MockResult(batch_size))]

InferExecute(r) ==
    /\ pc[r] = "try"
    /\ \E run_ok \in BOOLEAN :
        LET l == Execute(norm[r].batch[1], session, run_ok)
        IN /\ local' = [local EXCEPT ![r] = l]
           /\ pc' = [pc EXCEPT ![r] = IF l.exc = "" THEN "count_success" ELSE "except"]
    /\ UNCHANGED <<lifecycle, probe, metrics, request, norm, response, samples>>

RECURSIVE SumFn(_, _)
SumFn(f, n) == IF n = 0 THEN 0 ELSE f[n] + SumFn(f, n - 1)

\* The success counter written from a stale value: the count as of the calls
\* that have completed, plus one (the increments of calls in flight are lost).
RecordSuccessStale(r) ==
    /\ pc[r] = "count_success"
    /\ REQUEST_COUNT' = [REQUEST_COUNT EXCEPT !.success =
            SumFn([q \in Slots |-> IF pc[q] = "done" THEN samples[q].success ELSE 0], NumReq) + 1]
    /\ samples' = [samples EXCEPT ![r].success = @ + 1]
    /\ pc' = [pc EXCEPT ![r] = "observe_latency"]
    /\ UNCHANGED <<lifecycle, probe, REQUEST_LATENCY, TOKENS_PROCESSED, BATCH_SIZE, ACTIVE_REQUESTS,
                   request, norm, local, response>>

\* REQUEST_COUNT.labels(status="success", model).inc()
RecordSuccess(r) ==
    /\ pc[r] = "count_success"
    /\ REQUEST_COUNT' = [REQUEST_COUNT EXCEPT !.success = @ + 1]
    /\ samples' = [samples EXCEPT ![r].success = @ + 1]
    /\ pc' = [pc EXCEPT ![r] = "observe_latency"]
    /\ UNCHANGED <<lifecycle, probe, REQUEST_LATENCY, TOKENS_PROCESSED, BATCH_SIZE, ACTIVE_REQUESTS,
                   request, norm, local, response>>

\* REQUEST_LATENCY.labels(model).observe(latency)
ObserveLatency(r) ==
    /\ pc[r] = "observe_latency"
    /\ REQUEST_LATENCY' = REQUEST_LATENCY + 1
    /\ samples' = [samples EXCEPT ![r].latency = @ + 1]
    /\ pc' = [pc EXCEPT ![r] = "count_tokens"]
    /\ UNCHANGED <<lifecycle, probe, REQUEST_COUNT, TOKENS_PROCESSED, BATCH_SIZE, ACTIVE_REQUESTS,
                   request, norm, local, response>>

\* The token counter incremented by one per call instead of by the token count.
CountTokensByOne(r) ==
    /\ pc[r] = "count_tokens"
    /\ IF local[r].tokens < 0
       THEN /\ local' = [local EXCEPT ![r].exc = "ValueError", ![r].raised_at = "tokens"]
            /\ pc' = [pc EXCEPT ![r] = "except"]
            /\ UNCHANGED <<TOKENS_PROCESSED, samples>>
       ELSE /\ TOKENS_PROCESSED' = TOKENS_PROCESSED + 1
            /\ samples' = [samples EXCEPT ![r].token_incs = @ + 1,
                                          ![r].tokens = @ + 1]
            /\ pc' = [pc EXCEPT ![r] = "observe_batch"]
            /\ UNCHANGED local
    /\ UNCHANGED <<lifecycle, probe, REQUEST_COUNT, REQUEST_LATENCY, BATCH_SIZE, ACTIVE_REQUESTS,
                   request, norm, response>>

\* TOKENS_PROCESSED.labels(model).inc(tokens): Counter.inc raises ValueError
\* on a negative amount and leaves the counter unchanged.
CountTokens(r) ==
    /\ pc[r] = "count_tokens"
    /\ IF local[r].tokens < 0
       THEN /\ local' = [local EXCEPT ![r].exc = "ValueError", ![r].raised_at = "tokens"]
            /\ pc' = [pc EXCEPT ![r] = "except"]
            /\ UNCHANGED <<TOKENS_PROCESSED, samples>>
       ELSE /\ TOKENS_PROCESSED' = TOKENS_PROCESSED + local[r].tokens
            /\ samples' = [samples EXCEPT ![r].token_incs = @ + 1,
                                          ![r].tokens = @ + local[r].tokens]
            /\ pc' = [pc EXCEPT ![r] = "observe_batch"]
            /\ UNCHANGED local
    /\ UNCHANGED <<lifecycle, probe, REQUEST_COUNT, REQUEST_LATENCY, BATCH_SIZE, ACTIVE_REQUESTS,
                   request, norm, response>>

\* BATCH_SIZE.labels(model).observe(batch_size), then the return statement
\* (which runs the finally clause before control leaves infer).
ObserveBatchSize(r) ==
    /\ pc[r] = "observe_batch"
    /\ BATCH_SIZE' = [count |-> BATCH_SIZE.count + 1, sum |-> BATCH_SIZE.sum + local[r].batch_size]
    /\ samples' = [samples EXCEPT ![r].batch_obs = Append(@, local[r].batch_size)]
    /\ pc' = [pc EXCEPT ![r] = "finally"]
    /\ UNCHANGED <<lifecycle, probe, REQUEST_COUNT, REQUEST_LATENCY, TOKENS_PROCESSED, ACTIVE_REQUESTS,
                   request, norm, local, response>>

\* The except clause also decrementing the gauge (the finally clause does too).
InferExceptDec(r) ==
    /\ pc[r] = "except"
    /\ REQUEST_COUNT' = [REQUEST_COUNT EXCEPT !.error = @ + 1]
    /\ samples' = [samples EXCEPT ![r].error = @ + 1, ![r].dec = @ + 1]
    /\ ACTIVE_REQUESTS' = ACTIVE_REQUESTS - 1
    /\ pc' = [pc EXCEPT ![r] = "finally"]
    /\ UNCHANGED <<lifecycle, probe, REQUEST_LATENCY, TOKENS_PROCESSED, BATCH_SIZE,
                   request, norm, local, response>>

\* The except clause discarding the session after a failure.
InferExceptDropsSession(r) ==
    /\ pc[r] = "except"
    /\ REQUEST_COUNT' = [REQUEST_COUNT EXCEPT !.error = @ + 1]
    /\ samples' = [samples EXCEPT ![r].error = @ + 1]
    /\ session' = None
    /\ pc' = [pc EXCEPT ![r] = "finally"]
    /\ UNCHANGED <<phase, engine, tokenizer, MODEL_LOAD_TIME, load_env, probe,
                   REQUEST_LATENCY, TOKENS_PROCESSED, BATCH_SIZE, ACTIVE_REQUESTS,
                   request, norm, local, response>>

\* except Exception as e: the error counter, then `raise e`.
InferExcept(r) ==
    /\ pc[r] = "except"
    /\ REQUEST_COUNT' = [REQUEST_COUNT EXCEPT !.error = @ + 1]
    /\ samples' = [samples EXCEPT ![r].error = @ + 1]
    /\ pc' = [pc EXCEPT ![r] = "finally"]
    /\ UNCHANGED <<lifecycle, probe, REQUEST_LATENCY, TOKENS_PROCESSED, BATCH_SIZE, ACTIVE_REQUESTS,
                   request, norm, local, response>>

\* What predict answers once infer has returned or raised: the response built
\* from the result, or 500 for the propagated exception.
Respond(l) ==
    IF l.exc = ""
    THEN [status |-> 200, batch_size |-> l.batch_size, tokens_processed |-> l.tokens,
          pooler_output |-> l.result[1].pooler_output, error |-> ""]
    ELSE [NoResponse EXCEPT !.status = 500, !.error = l.exc]

\* finally replaced by a decrement on the success path only.
InferFinallySkipOnError(r) ==
    /\ pc[r] = "finally"
    /\ ACTIVE_REQUESTS' = IF local[r].exc = "" THEN ACTIVE_REQUESTS - 1 ELSE ACTIVE_REQUESTS
    /\ samples' = [samples EXCEPT ![r].dec = IF local[r].exc = "" THEN @ + 1 ELSE @]
    /\ response' = [response EXCEPT ![r] = Respond(local[r])]
    /\ pc' = [pc EXCEPT ![r] = "done"]
    /\ UNCHANGED <<lifecycle, probe, REQUEST_COUNT, REQUEST_LATENCY, TOKENS_PROCESSED, BATCH_SIZE,
                   request, norm, local>>

\* finally: ACTIVE_REQUESTS.labels(model).dec(); control then leaves infer and
\* predict answers.
InferFinally(r) ==
    /\ pc[r] = "finally"
    /\ ACTIVE_REQUESTS' = ACTIVE_REQUESTS - 1
    /\ samples' = [samples EXCEPT ![r].dec = @ + 1]
    /\ response' = [response EXCEPT ![r] = Respond(local[r])]
    /\ pc' = [pc EXCEPT ![r] = "done"]
    /\ UNCHANGED <<lifecycle, probe, REQUEST_COUNT, REQUEST_LATENCY, TOKENS_PROCESSED, BATCH_SIZE,
                   request, norm, local>>

\* ---------------------------------------------------------- specifications
InferStep(r) ==
    \/ InferEnter(r)
    \/ InferExecute(r)
    \/ RecordSuccess(r)
    \/ ObserveLatency(r)
    \/ CountTokens(r)
    \/ ObserveBatchSize(r)
    \/ InferExcept(r)
    \/ InferFinally(r)

\* One request at a time, over the whole request domain.
Next ==
    \/ LifespanStartup
    \/ LifespanShutdown
    \/ \E r \in SeqSlots : \E req \in Requests : Predict(r, req)
    \/ \E r \in SeqSlots : InferStep(r)

Spec == Init /\ [][Next]_vars

\* NumReq overlapping calls, over pre-tokenized requests.
NextConc ==
    \/ LifespanStartup
    \/ LifespanShutdown
    \/ \E r \in Slots : \E req \in ConcRequests : Predict(r, req)
    \/ \E r \in Slots : InferStep(r)

SpecConc == Init /\ [][NextConc]_vars

\* ------------------------------------------------------ read-only handlers
\* GET /health
health ==
    /\ probe' = [endpoint |-> "health",
                 body |-> [status |-> "healthy",
                           model_loaded |-> ~IsNone(engine) /\ ~IsNone(session)]]
    /\ UNCHANGED <<lifecycle, metrics, calls>>

\* GET /metrics: the serialisation of every sample.
metrics_endpoint ==
    /\ probe' = [endpoint |-> "metrics",
                 body |-> <<REQUEST_COUNT, REQUEST_LATENCY, TOKENS_PROCESSED, BATCH_SIZE,
                            ACTIVE_REQUESTS, MODEL_LOAD_TIME>>]
    /\ UNCHANGED <<lifecycle, metrics, calls>>

\* GET /v1/models/bert
model_info ==
    /\ probe' = [endpoint |-> "model_info",
                 body |-> [name |-> "bert-base-uncased",
                           max_sequence_length |-> MAX_SEQUENCE_LENGTH]]
    /\ UNCHANGED <<lifecycle, metrics, calls>>

\* Requests of the specification with the read-only handlers: the
\* pre-tokenized ones and two that are tokenized.
ProbeRequests ==
    ConcRequests \cup {[inputs |-> None, texts |-> None, text |-> Some(<<7>>)],
                       [inputs |-> None, texts |-> Some(<<<<>>, <<7, 7>>>>), text |-> None]}

\* One request, with health, metrics and model_info called at any time.
NextProbes ==
    \/ LifespanStartup
    \/ LifespanShutdown
    \/ \E r \in SeqSlots : \E req \in ProbeRequests : Predict(r, req)
    \/ \E r \in SeqSlots : InferStep(r)
    \/ health
    \/ metrics_endpoint
    \/ model_info

SpecProbes == Init /\ [][NextProbes]_vars

\* ------------------------------------------------------------------ claims
InFlight == {"try", "count_success", "observe_latency", "count_tokens", "observe_batch",
             "except", "finally"}

\* The request was handled with an engine present (no 503).
Handled(r) == norm[r].engine_read = "set"
\* infer was called for the request and control has left it.
Completed(r) == pc[r] = "done" /\ ~IsNone(norm[r].batch)
Raised(r) == Completed(r) /\ local[r].exc # ""
Returned(r) == Completed(r) /\ local[r].exc = ""

OpenCalls == {q \in Slots : pc[q] \in InFlight}

\* C1: every infer call, mock or loaded, returning or raising, increments the
\* active-requests gauge once at entry and decrements it once on exit: once the
\* call has completed it has made one inc and one dec, and the gauge holds
\* only what the calls still in flight contribute.
C1_GaugeRestored ==
    \A r \in Slots :
        Completed(r) =>
            /\ samples[r].inc = 1
            /\ samples[r].dec = 1
            /\ ACTIVE_REQUESTS = Cardinality(OpenCalls)

C1_Witness ==
    \E r \in Slots :
        /\ Raised(r)
        /\ ~IsNone(session)
        /\ ACTIVE_REQUESTS = 1

\* C2: with NumReq overlapping calls the gauge stays within 0..NumReq, and it
\* is 0 whenever no call is in flight, whatever the calls ended in.
C2_GaugeBounded ==
    /\ ACTIVE_REQUESTS >= 0
    /\ ACTIVE_REQUESTS <= NumReq
    /\ (OpenCalls = {} => ACTIVE_REQUESTS = 0)

C2_Witness ==
    /\ ACTIVE_REQUESTS = NumReq
    /\ \E r, q \in Slots :
        /\ pc[r] = "finally" /\ local[r].exc # ""
        /\ pc[q] = "finally" /\ local[q].exc = ""

\* C3: a call in which an exception was raised has recorded one error sample
\* and no success, latency, token or batch-size sample; the exception reaches
\* the caller as a 500 and the gauge has been decremented.
C3_ErrorOnly ==
    \A r \in Slots :
        Raised(r) =>
            /\ samples[r].error = 1
            /\ samples[r].success = 0
            /\ samples[r].latency = 0
            /\ samples[r].token_incs = 0
            /\ samples[r].batch_obs = <<>>
            /\ samples[r].dec = 1
            /\ response[r].status = 500
            /\ response[r].error = local[r].exc

\* C4: a call that returned has recorded one success sample, one latency
\* observation, a token increment of its tokens_processed, one batch-size
\* observation of its batch_size, and no error sample.
C4_SuccessSamples ==
    \A r \in Slots :
        Returned(r) =>
            /\ samples[r].success = 1
            /\ samples[r].latency = 1
            /\ samples[r].token_incs = 1
            /\ samples[r].tokens = response[r].tokens_processed
            /\ samples[r].batch_obs = <<response[r].batch_size>>
            /\ samples[r].error = 0

C4_Witness ==
    \E r \in Slots :
        /\ Returned(r)
        /\ IsNone(session)
        /\ response[r].tokens_processed > 1
        /\ response[r].batch_size > 1

NoShape(req) == IsNone(req.inputs) /\ IsNone(req.texts) /\ IsNone(req.text)

ZeroMetrics ==
    /\ REQUEST_COUNT = [success |-> 0, error |-> 0]
    /\ REQUEST_LATENCY = 0
    /\ TOKENS_PROCESSED = 0
    /\ BATCH_SIZE = [count |-> 0, sum |-> 0]
    /\ ACTIVE_REQUESTS = 0

\* C5: a request with none of inputs, texts, text, handled with an engine
\* present, is answered 400 without infer being called and without any metric
\* sample (Spec serves one request, so every metric is still at its start).
C5_NoInputRejected ==
    \A r \in Slots :
        (Handled(r) /\ NoShape(request[r])) =>
            /\ pc[r] = "done"
            /\ response[r].status = 400
            /\ IsNone(norm[r].batch)
            /\ samples[r] = NoSamples
            /\ ZeroMetrics

C5_Witness ==
    \E r \in Slots : Handled(r) /\ NoShape(request[r]) /\ response[r].status = 400

\* A pre-tokenized object that is not three 2-d tensors.
Malformed(req) ==
    /\ InputsTruthy(req)
    /\ \/ ~(Keys \subseteq DOMAIN req.inputs[1])
       \/ \E k \in DOMAIN req.inputs[1] : req.inputs[1][k].nd # 2

\* C6: a request whose pre-tokenized object is malformed is answered 400 and
\* changes no metric sample.
C6_MalformedRejected ==
    \A r \in Slots :
        (Handled(r) /\ pc[r] = "done" /\ Malformed(request[r])) =>
            /\ response[r].status = 400
            /\ samples[r] = NoSamples

\* C7: a request with texts = [] and no inputs is answered 400 and never
\* reaches infer.
C7_EmptyTextsRejected ==
    \A r \in Slots :
        (Handled(r) /\ IsNone(request[r].inputs) /\ request[r].texts = Some(<<>>)) =>
            /\ pc[r] = "done"
            /\ response[r].status = 400
            /\ IsNone(norm[r].batch)

\* C8: the batch handed to infer comes from one field by the precedence
\* inputs > texts > text, a field counting as present when it holds a
\* pre-tokenized object (a non-empty dict), a non-empty list of texts, or a
\* text: with inputs present the tokenizer is not invoked and the batch is the
\* request's tensors; otherwise with texts present the tokenizer is invoked on
\* texts; the tokenizer is invoked on text only when neither is present.
C8_Precedence ==
    \A r \in Slots :
        Handled(r) =>
            /\ InputsTruthy(request[r]) =>
                  /\ IsNone(norm[r].tokenized)
                  /\ ~IsNone(norm[r].batch) =>
                        \A k \in Keys : norm[r].batch[1][k].data = request[r].inputs[1][k].rows
            /\ (~InputsTruthy(request[r]) /\ TextsTruthy(request[r])) =>
                  /\ norm[r].tokenized = Some(request[r].texts[1])
                  /\ ~IsNone(norm[r].batch)
                  /\ norm[r].batch[1]["input_ids"].shape[1] = Len(request[r].texts[1])
            /\ norm[r].how = "text" =>
                  /\ ~InputsTruthy(request[r])
                  /\ ~TextsTruthy(request[r])
                  /\ norm[r].tokenized = Some(<<request[r].text[1]>>)
                  /\ norm[r].batch[1]["input_ids"].shape[1] = 1

C8_Witness ==
    \E r \in Slots :
        /\ Completed(r)
        /\ InputsTruthy(request[r]) /\ TextsTruthy(request[r]) /\ TextTruthy(request[r])
        /\ Len(request[r].texts[1]) # Len(request[r].inputs[1]["input_ids"].rows)
        /\ response[r].status = 200

\* A batch of three 2-d tensors whose mask entries are 0 or 1.
ValidBatch(b) ==
    /\ \A k \in Keys : Len(b[k].shape) = 2
    /\ \A i \in 1..Len(b["attention_mask"].data) :
          \A j \in 1..Len(b["attention_mask"].data[i]) : b["attention_mask"].data[i][j] \in {0, 1}

\* C9: predict answers 503 exactly when it found the engine reference unset;
\* with an engine and no session, a request with a valid input shape is
\* answered 200 with the synthetic output.
C9_Only503WithoutEngine ==
    \A r \in Slots :
        /\ pc[r] = "done" => ((response[r].status = 503) <=> (norm[r].engine_read = "unset"))
        /\ (Completed(r) /\ IsNone(session) /\ ValidBatch(norm[r].batch[1])) =>
              /\ response[r].status = 200
              /\ response[r].pooler_output = Some(<<response[r].batch_size, HiddenDim>>)
              /\ local[r].result[1].last_hidden_state
                    = <<response[r].batch_size, MAX_SEQUENCE_LENGTH, HiddenDim>>

C9_Witness ==
    \E r \in Slots :
        /\ Completed(r)
        /\ phase = "serving"
        /\ IsNone(session)
        /\ response[r].status = 200

\* C10: for every batch infer returned a result for, the mock result and the
\* result of a session (with one or with two outputs) have the same shapes.
C10_ShapeEquivalence ==
    \A r \in Slots :
        Returned(r) =>
            \A n \in {1, 2} :
                MockResult(local[r].batch_size) = SessionResult(norm[r].batch[1], [outputs |-> n])

\* C11: the session is what load() left and no later step changes it (predict,
\* infer with its tokenize call, health, metrics, model_info, shutdown): every
\* infer call takes the mock branch when the session is unset and the session
\* branch when it is set.
C11_SessionFixedByLoad ==
    /\ [][phase # "init" => session' = session]_vars
    /\ [](\A r \in Slots :
            local[r].branch # "" =>
                /\ ~IsNone(load_env)
                /\ session = load(load_env[1]).session
                /\ (local[r].branch = "mock") <=> IsNone(session))

C11_Witness ==
    \E r \in Slots :
        /\ Raised(r)
        /\ local[r].branch = "session"
        /\ norm[r].how = "texts"
        /\ probe.endpoint = "health"
        /\ probe.body.model_loaded

\* The number of entries of a 2-d tensor that equal v.
EntryCount(data, v) ==
    Cardinality({p \in UNION {{<<i, j>> : j \in 1..Len(data[i])} : i \in 1..Len(data)} :
                    data[p[1]][p[2]] = v})

\* C12: for a call that returned a result, infer's tokens_processed is the sum
\* of the attention-mask entries of the batch (entries are -1, 0 or 1 here),
\* its batch_size is the number of rows of input_ids, and the response carries
\* both unchanged.
C12_TokensAndBatchSize ==
    \A r \in Slots :
        Returned(r) =>
            LET mask == norm[r].batch[1]["attention_mask"].data
                ids == norm[r].batch[1]["input_ids"].data
            IN /\ local[r].tokens = EntryCount(mask, 1) - EntryCount(mask, -1)
               /\ local[r].batch_size = Len(ids)
               /\ response[r].status = 200
               /\ response[r].tokens_processed = local[r].tokens
               /\ response[r].batch_size = local[r].batch_size

C12_Witness ==
    \E r \in Slots :
        /\ Returned(r)
        /\ response[r].batch_size = 2
        /\ EntryCount(norm[r].batch[1]["attention_mask"].data, 0) > 0
        /\ response[r].tokens_processed > 2

CallSamples(l) ==
    [success |-> IF l.exc = "" \/ l.raised_at = "tokens" THEN 1 ELSE 0,
     latency |-> IF l.exc = "" \/ l.raised_at = "tokens" THEN 1 ELSE 0,
     tokens |-> IF l.exc = "" THEN l.tokens ELSE 0,
     batch_count |-> IF l.exc = "" THEN 1 ELSE 0,
     batch_sum |-> IF l.exc = "" THEN l.batch_size ELSE 0,
     error |-> IF l.exc = "" THEN 0 ELSE 1]

Total(field) ==
    SumFn([r \in Slots |-> IF Completed(r) THEN CallSamples(local[r])[field] ELSE 0], NumReq)

\* C14: once the calls have completed, every counter and histogram holds the
\* sum over the calls of what each call records given its input and outcome,
\* and the gauge is 0: the final values are the same in every interleaving of
\* the calls' updates and no update is lost.
C14_AdditiveMetrics ==
    OpenCalls = {} =>
        /\ REQUEST_COUNT.success = Total("success")
        /\ REQUEST_COUNT.error = Total("error")
        /\ TOKENS_PROCESSED = Total("tokens")
        /\ REQUEST_LATENCY = Total("latency")
        /\ BATCH_SIZE.count = Total("batch_count")
        /\ BATCH_SIZE.sum = Total("batch_sum")
        /\ ACTIVE_REQUESTS = 0

C14_Witness ==
    /\ \A r \in Slots : Completed(r)
    /\ \E r \in Slots : Raised(r)
    /\ REQUEST_COUNT.success >= 1
    /\ REQUEST_COUNT.error >= 1
    /\ TOKENS_PROCESSED >= 2

\* A call whose execution (the session run) raised.
ExecutionRaised(r) == Raised(r) /\ local[r].raised_at = "run"

\* C15 as stated: a call whose execution raised still has its token count and
\* its batch size recorded.
C15_RecordedOnFailure ==
    \A r \in Slots :
        ExecutionRaised(r) =>
            /\ samples[r].token_incs = 1
            /\ samples[r].tokens = local[r].tokens
            /\ samples[r].batch_obs = <<local[r].batch_size>>

\* C15, amended: batch_size and tokens_processed are computed before the
\* execution call, so a call whose execution raised holds both values, but it
\* records neither: the token counter and the batch-size histogram get a
\* sample only from a call that returns.
C15_ComputedNotRecorded ==
    \A r \in Slots :
        ExecutionRaised(r) =>
            LET mask == norm[r].batch[1]["attention_mask"].data
            IN /\ local[r].batch_size = Len(norm[r].batch[1]["input_ids"].data)
               /\ local[r].tokens = EntryCount(mask, 1) - EntryCount(mask, -1)
               /\ samples[r].token_incs = 0
               /\ samples[r].tokens = 0
               /\ samples[r].batch_obs = <<>>
               /\ samples[r].error = 1

C15_Witness ==
    \E r \in Slots :
        /\ ExecutionRaised(r)
        /\ local[r].batch_size = 2
        /\ local[r].tokens > 2

\* C16: every completed call has recorded exactly one outcome sample, success
\* or error; once no call is in flight the two request counters sum to the
\* number of completed calls; the gauge is the number of calls in flight.
C16_OneOutcomePerCall ==
    /\ \A r \in Slots : Completed(r) => samples[r].success + samples[r].error = 1
    /\ OpenCalls = {} =>
          REQUEST_COUNT.success + REQUEST_COUNT.error
              = Cardinality({r \in Slots : Completed(r)})
    /\ ACTIVE_REQUESTS = Cardinality(OpenCalls)

====
